---- MODULE Spec2Model ----
(***************************************************************************)
(* Role-gated analytics dashboard (Streamlit): session/auth shell          *)
(* (app.py), procedure gateway (utils.py), dashboard controllers           *)
(* (the four dashboard modules) and the metric derivations they apply.     *)
(*                                                                         *)
(* The specifications share the variables below:                           *)
(*   Spec          the shell: login, logout, sidebar, dispatch by role     *)
(*   SpecRender    one controller invocation, section by section           *)
(*   SpecGateway   call_stored_procedure with its result cache             *)
(*   SpecGrowth    the period-over-period derivations on a period series   *)
(*   SpecShare, SpecNormalize, SpecAnnotate, SpecOrder, SpecTopN,          *)
(*   SpecColors, SpecAxes: one derivation each, applied to a result        *)
(***************************************************************************)
EXTENDS Integers, Sequences, FiniteSets, TLC

VARIABLES
    session,    \* st.session_state of every browser session
    connCache,  \* st.cache_resource entries of init_connection, per username
    connOpen,   \* state of the connection object created for a username
    procCache,  \* st.cache_data entries of call_stored_procedure
    cast,       \* the account whose password the scenario's users know
    out,        \* what the last run of main() showed and did
    render,     \* trace of the last controller invocation
    gw,         \* outcome of the last call_stored_procedure call
    hist,       \* history: recent completed calls of call_stored_procedure
    series,     \* rows of a monthly procedure result, in the order returned
    derived     \* result of the period-over-period derivation on series

vars == <<session, connCache, connOpen, procCache, cast, out, render, gw,
          hist, series, derived>>

-----------------------------------------------------------------------------
(* Credentials, roles, sessions                                            *)

Sessions == {"s1", "s2"}

Usernames == {"db_admin", "user_analyst", "finance_analyst", "marketing_analyst"}

credentials ==
    [u \in Usernames |->
        CASE u = "db_admin"          -> "Admin@2025!Secure"
          [] u = "user_analyst"      -> "UserTeam@2025!"
          [] u = "finance_analyst"   -> "Finance@2025!Secure"
          [] u = "marketing_analyst" -> "Marketing@2025!Secure"]

RoleOf(u) ==
    CASE u = "db_admin"          -> "admin_role"
      [] u = "user_analyst"      -> "user_analyst_role"
      [] u = "finance_analyst"   -> "finance_analyst_role"
      [] u = "marketing_analyst" -> "marketing_analyst_role"
      [] OTHER                   -> ""

\* Python None for the connection; a connection object is named by the
\* username it was opened for (init_connection creates at most one each).
None == "None"

\* Python None for a date of the session state.
NoDate == -1

\* init_auth_state: the defaults of a new session.
init_auth_state ==
    [authenticated |-> FALSE, username |-> "", user_role |-> "",
     conn |-> None, start_date |-> NoDate, end_date |-> NoDate]

-----------------------------------------------------------------------------
(* Dates: days as integers                                                 *)

Today == 1000       \* datetime.now(), as a day number
YearDays == 365     \* timedelta(days=365)
SpanDays == 1       \* MAX(OrderDate) - MIN(OrderDate) in the database

ObsMax == Today - 10
ObsMin == ObsMax - SpanDays

\* get_date_range's fallback when the query fails or finds no order.
FallbackRange == <<Today - YearDays, Today>>

ObservedRange == <<ObsMin, ObsMax>>

-----------------------------------------------------------------------------
(* Session/Auth shell: app.py                                              *)

NoOut ==
    [op |-> "none", s |-> "", user |-> "", pass |-> "", query |-> "none",
     ok |-> FALSE, msg |-> "", connectTried |-> FALSE, reachable |-> FALSE,
     status |-> "none", controller |-> "none", dateQuery |-> FALSE,
     rangeSrc |-> "none", range |-> <<NoDate, NoDate>>, widgetLen |-> 0,
     touched |-> FALSE, cacheCleared |-> FALSE,
     dates |-> <<NoDate, NoDate>>]

\* init_connection under @st.cache_resource: the first call for a username
\* connects and stores what it returns (a connection, or None when connecting
\* raised); every later call returns the stored value without connecting.
init_connection(cache, username, reachable) ==
    IF cache[username] = "uncached"
    THEN [conn   |-> IF reachable THEN username ELSE None,
          cache  |-> [cache EXCEPT ![username] =
                         IF reachable THEN "conn" ELSE "None"],
          opened |-> reachable,
          tried  |-> TRUE]
    ELSE [conn   |-> IF cache[username] = "conn" THEN username ELSE None,
          cache  |-> cache,
          opened |-> FALSE,
          tried  |-> FALSE]

\* login() connecting before it looks at the credentials.
login_ConnectFirst(st, cache, username, password, reachable) ==
    LET u == IF username \in DOMAIN credentials THEN username ELSE "db_admin"
        c == init_connection(cache, u, reachable)
    IN
    IF username \in DOMAIN credentials /\ password = credentials[username]
          /\ c.conn # None
    THEN [st |-> [st EXCEPT !.authenticated = TRUE, !.username = username,
                             !.conn = c.conn, !.user_role = RoleOf(username)],
          cache |-> c.cache, opened |-> c.opened, tried |-> c.tried,
          ret |-> TRUE]
    ELSE [st |-> st, cache |-> c.cache, opened |-> c.opened,
          tried |-> c.tried, ret |-> FALSE]

\* login(username, password): the new session state, the caches and the
\* value returned.
login(st, cache, username, password, reachable) ==
    IF username \in DOMAIN credentials /\ password = credentials[username]
    THEN LET c == init_connection(cache, username, reachable) IN
         IF c.conn # None
         THEN [st |-> [st EXCEPT !.authenticated = TRUE,
                                  !.username = username,
                                  !.conn = c.conn,
                                  !.user_role = RoleOf(username)],
               cache |-> c.cache, opened |-> c.opened, tried |-> c.tried,
               ret |-> TRUE]
         ELSE [st |-> st, cache |-> c.cache, opened |-> c.opened,
               tried |-> c.tried, ret |-> FALSE]
    ELSE [st |-> st, cache |-> cache, opened |-> FALSE, tried |-> FALSE,
          ret |-> FALSE]

\* A logout() that forgets to reset the username.
logout_KeepUsername(st) ==
    [st |-> [st EXCEPT !.authenticated = FALSE, !.user_role = "",
                       !.conn = None],
     closed |-> st.conn]

\* A logout() that resets the date filter as well.
logout_ClearDates(st) ==
    [st |-> [st EXCEPT !.authenticated = FALSE, !.username = "",
                       !.user_role = "", !.conn = None,
                       !.start_date = NoDate, !.end_date = NoDate],
     closed |-> st.conn]

\* logout(): the new session state; the connection it closes, if any.
logout(st) ==
    [st |-> [st EXCEPT !.authenticated = FALSE, !.username = "",
                       !.user_role = "", !.conn = None],
     closed |-> st.conn]

\* get_date_range(_conn): q is what the MIN/MAX query does on an open
\* connection: "ok" (both bounds), "null" (no order), "error" (execute raises).
\* conn.cursor() is outside the try block: on a closed connection it raises.
get_date_range(conn, open, q) ==
    IF conn = None THEN [raised |-> FALSE, src |-> "fallback", range |-> FallbackRange]
    ELSE IF ~open THEN [raised |-> TRUE, src |-> "none", range |-> <<NoDate, NoDate>>]
    ELSE IF q = "ok" THEN [raised |-> FALSE, src |-> "observed", range |-> ObservedRange]
    ELSE [raised |-> FALSE, src |-> "fallback", range |-> FallbackRange]

\* The days the user picks in st.date_input: the first or the last day it
\* offers between min_value and max_value.
WidgetDays(lo, hi) == {lo, hi}

\* What st.date_input(value=(min, max), min_value=min, max_value=max) can
\* return: the default pair, or the user's selection of zero, one or two days
\* (a pair is ordered).
DateInput(lo, hi) ==
    {<<>>} \cup {<<d>> : d \in WidgetDays(lo, hi)}
           \cup {<<d, e>> : d \in WidgetDays(lo, hi), e \in WidgetDays(lo, hi)}

ValidDateInput(lo, hi) == {w \in DateInput(lo, hi) : Len(w) = 2 => w[1] <= w[2]}

\* A date filter that takes a single selected day as both bounds.
SidebarDatesSingleDay(range, w) ==
    IF Len(w) = 2 THEN w ELSE IF Len(w) = 1 THEN <<w[1], w[1]>> ELSE range

\* setup_sidebar's date filter: len(date_range) == 2 takes the selection,
\* anything else the full range.
SidebarDates(range, w) == IF Len(w) = 2 THEN w ELSE range

\* A dispatch that sends two roles to each other's controller.
ControllerOfSwapped(role) ==
    CASE role = "admin_role"             -> "admin_dashboard"
      [] role = "user_analyst_role"      -> "user_dashboard"
      [] role = "finance_analyst_role"   -> "marketing_dashboard"
      [] role = "marketing_analyst_role" -> "finance_dashboard"
      [] OTHER                           -> "none"

\* The controller main() dispatches to.
ControllerOf(role) ==
    CASE role = "admin_role"             -> "admin_dashboard"
      [] role = "user_analyst_role"      -> "user_dashboard"
      [] role = "finance_analyst_role"   -> "finance_dashboard"
      [] role = "marketing_analyst_role" -> "marketing_dashboard"
      [] OTHER                           -> "none"

\* The state of the date widget in one run: untouched it holds its default
\* value=(min, max); touched it holds the user's selection.
WidgetStates(range) ==
    {[touched |-> FALSE, value |-> range]} \cup
    {[touched |-> TRUE, value |-> w] : w \in ValidDateInput(range[1], range[2])}

\* setup_sidebar up to the buttons: the date query and the date filter.
setup_sidebar(st, open, q, w) ==
    LET r == get_date_range(st.conn, open, q) IN
    IF r.raised THEN [raised |-> TRUE, st |-> st, src |-> r.src, range |-> r.range]
    ELSE LET d == SidebarDates(r.range, w) IN
         [raised |-> FALSE,
          st |-> [st EXCEPT !.start_date = d[1], !.end_date = d[2]],
          src |-> r.src, range |-> r.range]

\* main() without its authentication gate: no session is shown the login
\* page.
display_login_page_Never(st) == FALSE

\* main()'s gate: "if not st.session_state.authenticated" shows the login
\* page, anything else the sidebar and the dashboard.
display_login_page(st) == ~st.authenticated

\* Inputs of the login form.
LoginNames == Usernames \cup {"guest"}
LoginPasswords == {credentials[cast], "letmein"}

\* main() on an unauthenticated session, Login not pressed: the login page.
RenderLogin(s) ==
    /\ display_login_page(session[s])
    /\ out' = [NoOut EXCEPT !.op = "login_page", !.s = s, !.status = "done"]
    /\ UNCHANGED <<session, connCache, connOpen, procCache, cast, render, gw,
                   hist, series, derived>>

\* main() on an unauthenticated session with Login pressed:
\* display_login_page calls login() and shows its verdict.
LoginClick(s, username, password, reachable) ==
    /\ display_login_page(session[s])
    /\ LET l == login(session[s], connCache, username, password, reachable) IN
       /\ session' = [session EXCEPT ![s] = l.st]
       /\ connCache' = l.cache
       /\ connOpen' = IF l.opened THEN [connOpen EXCEPT ![username] = TRUE]
                                  ELSE connOpen
       /\ out' = [NoOut EXCEPT !.op = "login", !.s = s, !.user = username,
                     !.pass = password, !.ok = l.ret,
                     !.reachable = reachable,
                     !.status = "done", !.connectTried = l.tried,
                     !.msg = IF l.ret THEN "Login successful! Redirecting..."
                                      ELSE "Invalid username or password"]
    /\ UNCHANGED <<procCache, cast, render, gw, hist, series, derived>>

\* main() on an authenticated session: the sidebar, then the controller of
\* the session's role (its body is SpecRender's subject). click is the
\* sidebar button pressed in this run: "none", "refresh" or "logout".
RenderDashboard(s, click, q, w) ==
    /\ ~display_login_page(session[s])
    /\ LET st == session[s]
           open == IF st.conn = None THEN FALSE ELSE connOpen[st.conn]
           sb == setup_sidebar(st, open, q, w.value)
           base == [NoOut EXCEPT !.s = s, !.dateQuery = TRUE, !.query = q,
                       !.rangeSrc = sb.src, !.range = sb.range,
                       !.widgetLen = Len(w.value), !.touched = w.touched,
                       !.dates = <<sb.st.start_date, sb.st.end_date>>]
       IN
       IF sb.raised
       THEN /\ out' = [base EXCEPT !.op = "render", !.status = "exception"]
            /\ UNCHANGED <<session, connOpen, procCache>>
       ELSE IF click = "logout"
       THEN LET lo == logout(sb.st) IN
            /\ session' = [session EXCEPT ![s] = lo.st]
            /\ connOpen' = IF lo.closed = None THEN connOpen
                           ELSE [connOpen EXCEPT ![lo.closed] = FALSE]
            /\ out' = [base EXCEPT !.op = "logout", !.status = "rerun"]
            /\ UNCHANGED procCache
       ELSE /\ session' = [session EXCEPT ![s] = sb.st]
            /\ procCache' = IF click = "refresh" THEN {} ELSE procCache
            /\ out' = [base EXCEPT !.op = "render", !.status = "dispatched",
                          !.cacheCleared = (click = "refresh"),
                          !.controller = ControllerOf(sb.st.user_role)]
            /\ UNCHANGED connOpen
    /\ UNCHANGED <<connCache, cast, render, gw, hist, series, derived>>

-----------------------------------------------------------------------------
(* Procedure gateway: utils.py                                             *)

TTL == 600          \* @st.cache_data(ttl=600), seconds

\* The key st.cache_data hashes: the arguments whose names do not start
\* with an underscore, so _conn is left out.
CacheKeyWithConn(conn, proc_name, params) == <<proc_name, params, conn>>

CacheKey(conn, proc_name, params) == <<proc_name, params>>

\* An entry is served while it is younger than the ttl.
IsFresh(e) == e.age < TTL

Lookup(cache, k) == {e \in cache : e.key = k /\ IsFresh(e)}

\* A cache that keeps no empty result.
StoreUnlessEmpty(cache, k, v) ==
    IF v = "empty" THEN {e \in cache : e.key # k}
    ELSE {e \in cache : e.key # k} \cup {[key |-> k, val |-> v, age |-> 0]}

Store(cache, k, v) ==
    {e \in cache : e.key # k} \cup {[key |-> k, val |-> v, age |-> 0]}

\* What the body returns for what the database does: the first result set,
\* or [] when there is none or when callproc raises.
FirstResultSet(outcome) ==
    IF outcome \in {"error", "noresult"} THEN "empty" ELSE outcome

\* call_stored_procedure(_conn, proc_name, params) under @st.cache_data.
\* conn is None or a connection object, open tells whether the connection is
\* usable, outcome is what the database does if callproc is reached.
\* _conn.cursor() stands before the try block: on an unusable connection it
\* raises and nothing is stored.
call_stored_procedure(cache, conn, open, proc_name, params, outcome) ==
    LET k == CacheKey(conn, proc_name, params)
        found == Lookup(cache, k)
    IN
    IF found # {}
    THEN [hit |-> TRUE, raised |-> FALSE, ret |-> (CHOOSE e \in found : TRUE).val,
          cache |-> cache, cursorOpened |-> FALSE, cursorClosed |-> FALSE,
          invoked |-> FALSE, error |-> FALSE]
    ELSE IF conn = None
    THEN [hit |-> FALSE, raised |-> FALSE, ret |-> "empty",
          cache |-> Store(cache, k, "empty"), cursorOpened |-> FALSE,
          cursorClosed |-> FALSE, invoked |-> FALSE, error |-> FALSE]
    ELSE IF ~open
    THEN [hit |-> FALSE, raised |-> TRUE, ret |-> "raise",
          cache |-> cache, cursorOpened |-> FALSE, cursorClosed |-> FALSE,
          invoked |-> FALSE, error |-> FALSE]
    ELSE [hit |-> FALSE, raised |-> FALSE, ret |-> FirstResultSet(outcome),
          cache |-> Store(cache, k, FirstResultSet(outcome)),
          cursorOpened |-> TRUE, cursorClosed |-> TRUE,
          invoked |-> TRUE, error |-> (outcome = "error")]

\* Seconds the clock advances in one step.
TickSeconds == 300

\* Time passing: every entry ages; an entry no longer fresh is dropped.
AgeCache(cache) ==
    {a \in {[e EXCEPT !.age = e.age + TickSeconds] : e \in cache} : IsFresh(a)}

\* The calls SpecGateway makes: two procedures of the marketing controller,
\* each with the category it is asked for.
GatewayProcs == {"QuarterlySalesAnalysis", "ProductPriceElasticityAnalysis"}
GatewayParams == {<<1>>, <<2>>}
GatewayCalls ==
    {c \in GatewayProcs \X GatewayParams :
        c[1] = "QuarterlySalesAnalysis" \/ c[2] = <<1>>}

\* What the database does when callproc is reached.
DbOutcomes == {"rows", "empty", "error"}

NoGw ==
    [op |-> "none", name |-> "", params |-> <<>>, conn |-> None,
     connState |-> "absent", hit |-> FALSE, raised |-> FALSE, ret |-> "",
     invoked |-> FALSE, cursorOpened |-> FALSE, cursorClosed |-> FALSE,
     error |-> FALSE, cacheChanged |-> FALSE, storedRecently |-> FALSE,
     failedRecently |-> FALSE, outcome |-> "",
     calledRecently |-> FALSE]

\* History: the completed calls of the last TTL seconds since the last
\* cache clear, the latest of each kind per (name, params). "stored": the
\* body ran and returned (failed: the procedure invocation had raised);
\* "served": the cache answered.
Log(h, name, params, kind, failed) ==
    {e \in h : ~(e.name = name /\ e.params = params /\ e.kind = kind)}
        \cup {[name |-> name, params |-> params, kind |-> kind,
               failed |-> failed, ago |-> 0]}

AgeLog(h) ==
    {[e EXCEPT !.ago = e.ago + TickSeconds] :
        e \in {x \in h : x.ago + TickSeconds < TTL}}

\* One call of call_stored_procedure with connection c (None, or the
\* connection object of a logged-in session).
GatewayCall(c, proc_name, params, outcome) ==
    LET open == IF c = None THEN FALSE ELSE connOpen[c]
        r == call_stored_procedure(procCache, c, open, proc_name, params, outcome)
        before == {e \in hist : e.name = proc_name /\ e.params = params}
    IN
    /\ procCache' = r.cache
    /\ gw' = [op |-> "call", name |-> proc_name, params |-> params, conn |-> c,
              connState |-> IF c = None THEN "absent"
                            ELSE IF open THEN "open" ELSE "closed",
              hit |-> r.hit, raised |-> r.raised, ret |-> r.ret,
              invoked |-> r.invoked, cursorOpened |-> r.cursorOpened,
              cursorClosed |-> r.cursorClosed, error |-> r.error,
              cacheChanged |-> (r.cache # procCache),
              storedRecently |-> (\E e \in before : e.kind = "stored"),
              failedRecently |-> (\E e \in before :
                                     e.kind = "stored" /\ e.failed),
              outcome |-> outcome,
              calledRecently |-> (before # {})]
    /\ hist' = IF r.raised THEN hist
               ELSE Log(hist, proc_name, params,
                        IF r.hit THEN "served" ELSE "stored",
                        ~r.hit /\ r.error)
    /\ UNCHANGED <<session, connCache, connOpen, cast, out, render, series,
                   derived>>

\* 'Refresh Data': st.cache_data.clear().
ClearCache ==
    /\ procCache' = {}
    /\ hist' = {}
    /\ gw' = NoGw
    /\ UNCHANGED <<session, connCache, connOpen, cast, out, render, series,
                   derived>>

\* The clock advances.
Tick ==
    /\ procCache' = AgeCache(procCache)
    /\ hist' = AgeLog(hist)
    /\ gw' = NoGw
    /\ UNCHANGED <<session, connCache, connOpen, cast, out, render, series,
                   derived>>

\* A connection object is closed: conn.close() in the logout of a session
\* that holds it.
ConnectionClosed(c) ==
    /\ connOpen[c]
    /\ connOpen' = [connOpen EXCEPT ![c] = FALSE]
    /\ gw' = NoGw
    /\ UNCHANGED <<session, connCache, procCache, cast, out, render, hist,
                   series, derived>>

-----------------------------------------------------------------------------
(* Dashboard controllers: one invocation, section by section               *)

\* The sections of each controller, in the order its code runs them.
SectionsOf(controller) ==
    CASE controller = "admin_dashboard" ->
            <<"Business Overview", "Business Growth Trajectory",
              "Product Performance Analysis", "Regional Market Analysis">>
      [] controller = "user_dashboard" ->
            <<"User Distribution by Province", "VIP vs Non-VIP User Comparison",
              "User Retention Analysis", "User Activity Analysis">>
      [] controller = "finance_dashboard" ->
            <<"Monthly Revenue Trend", "Payment Method Analysis",
              "Failed Payments Analysis", "User Spending Tiers">>
      [] controller = "marketing_dashboard" ->
            <<"Discount Profitability Analysis",
              "Quarterly Sales Pattern Analysis",
              "Product Price Elasticity Analysis">>
      [] OTHER -> <<>>

HistoryDays == 180  \* timedelta(days=180): history behind the KPI deltas
GrowthDays == 365   \* timedelta(days=365): the growth trajectory
AllCategories == <<1, 2>>   \* the categories the Product table lists

\* The run of a controller so far: the cache, the number of conn.cursor()
\* calls made, whether it still runs, and what each section did.
StartRun(cache) ==
    [cache |-> cache, cursors |-> 0, status |-> "running", sections |-> <<>>]

\* The connection is usable for the next conn.cursor() call unless it was
\* lost by then: lostAt = k > 0 says the k-th cursor() call of this run and
\* all later ones find it unavailable.
Usable(ctx, lostAt) == lostAt = 0 \/ ctx.cursors + 1 < lostAt

\* A call_stored_procedure call made by a controller.
Fetch(ctx, conn, lostAt, proc_name, params, outcome) ==
    LET r == call_stored_procedure(ctx.cache, conn, Usable(ctx, lostAt),
                                   proc_name, params, outcome)
    IN [ctx |-> [ctx EXCEPT !.cache = r.cache,
                            !.cursors = IF r.hit THEN @ ELSE @ + 1,
                            !.status = IF r.raised THEN "exception" ELSE @],
        ret |-> r.ret]

\* The category query the admin and marketing controllers run themselves:
\* conn.cursor(), execute, fetchall with no try block around them.
CategoryQuery(ctx, lostAt, outcome) ==
    LET ok == Usable(ctx, lostAt) /\ outcome # "error" IN
    [ctx |-> [ctx EXCEPT !.cursors = @ + 1,
                         !.status = IF ok THEN @ ELSE "exception"],
     ret |-> IF ok THEN outcome ELSE "raise"]

\* What a section did: the result its procedure call gave ("none" when the
\* section made no call) and what it put on the page.
Section(id, result, shown) == [id |-> id, result |-> result, shown |-> shown]

Add(ctx, sec) == [ctx EXCEPT !.sections = Append(@, sec)]

\* A section that puts "no data" on the page when its result is empty.
WithPlaceholder(ret) == IF ret = "empty" THEN {"no_data"} ELSE {"content"}

\* A section that shows nothing at all when its result is empty.
WithoutPlaceholder(ret) == IF ret = "empty" THEN {} ELSE {"content"}

\* The plain section: one call, then content or the section's empty state.
PlainSection(ctx, conn, lostAt, id, proc_name, params, outcome, placeholder) ==
    IF ctx.status # "running" THEN ctx
    ELSE LET f == Fetch(ctx, conn, lostAt, proc_name, params, outcome) IN
         IF f.ctx.status # "running" THEN f.ctx
         ELSE Add(f.ctx, Section(id, f.ret,
                     IF placeholder THEN WithPlaceholder(f.ret)
                                    ELSE WithoutPlaceholder(f.ret)))

\* admin_dashboard(conn, start_date, end_date). db gives, per procedure,
\* what the database does when callproc is reached; cats what the category
\* query finds; ui the widget states.
AdminOverview(ctx, conn, lostAt, start, end, db) ==
    IF ctx.status # "running" THEN ctx
    ELSE LET f == Fetch(ctx, conn, lostAt, "admin_business_overview",
                        <<start, end>>, db["admin_business_overview"]) IN
         IF f.ctx.status # "running" THEN f.ctx
         ELSE IF f.ret = "empty"
         THEN Add(f.ctx, Section("Business Overview", f.ret, {}))
         ELSE LET h == Fetch(f.ctx, conn, lostAt,
                             "admin_business_growth_trajectory",
                             <<start - HistoryDays, end>>,
                             db["admin_business_growth_trajectory"]) IN
              IF h.ctx.status # "running" THEN h.ctx
              ELSE IF h.ret = "zerodiv"
              THEN [h.ctx EXCEPT !.status = "exception"]
              ELSE Add(h.ctx, Section("Business Overview", f.ret, {"content"}))

AdminGrowth(ctx, conn, lostAt, start, end, db, ui) ==
    IF ctx.status # "running" THEN ctx
    ELSE LET f == Fetch(ctx, conn, lostAt, "admin_business_growth_trajectory",
                        <<start - GrowthDays, end>>,
                        db["admin_business_growth_trajectory"]) IN
         IF f.ctx.status # "running" THEN f.ctx
         ELSE Add(f.ctx, Section("Business Growth Trajectory", f.ret,
                     IF f.ret # "empty" /\ ui.metrics THEN {"content"} ELSE {}))

AdminProducts(ctx, conn, lostAt, start, end, db, cats, ui) ==
    IF ctx.status # "running" THEN ctx
    ELSE LET q == CategoryQuery(ctx, lostAt, cats) IN
         IF q.ctx.status # "running" THEN q.ctx
         ELSE IF q.ret = "empty"
         THEN Add(q.ctx, Section("Product Performance Analysis", "none", {}))
         ELSE IF ~ui.categories
         THEN Add(q.ctx, Section("Product Performance Analysis", "none",
                                 {"prompt"}))
         ELSE LET f == Fetch(q.ctx, conn, lostAt, "admin_product_performance",
                             <<start, end>> \o AllCategories,
                             db["admin_product_performance"]) IN
              IF f.ctx.status # "running" THEN f.ctx
              ELSE Add(f.ctx, Section("Product Performance Analysis", f.ret,
                                      WithoutPlaceholder(f.ret)))

admin_dashboard(cache, conn, lostAt, start, end, db, cats, ui) ==
    LET c1 == AdminOverview(StartRun(cache), conn, lostAt, start, end, db)
        c2 == AdminGrowth(c1, conn, lostAt, start, end, db, ui)
        c3 == AdminProducts(c2, conn, lostAt, start, end, db, cats, ui)
    IN PlainSection(c3, conn, lostAt, "Regional Market Analysis",
                    "admin_market_penetration_by_region", <<start, end>>,
                    db["admin_market_penetration_by_region"], FALSE)

\* user_dashboard(conn, start_date, end_date).
UserRetention(ctx, conn, lostAt, db) ==
    IF ctx.status # "running" THEN ctx
    ELSE LET f == Fetch(ctx, conn, lostAt, "UserRetentionAnalysis", <<2024>>,
                        db["UserRetentionAnalysis"]) IN
         IF f.ctx.status # "running" THEN f.ctx
         ELSE Add(f.ctx, Section("User Retention Analysis", f.ret,
                     CASE f.ret = "empty"   -> {}
                       [] f.ret = "nototal" -> {"content", "no_data"}
                       [] OTHER             -> {"content"}))

user_dashboard(cache, conn, lostAt, start, end, db, cats, ui) ==
    LET c1 == PlainSection(StartRun(cache), conn, lostAt,
                  "User Distribution by Province", "ProvincialUserAnalysis",
                  <<>>, db["ProvincialUserAnalysis"], TRUE)
        c2 == PlainSection(c1, conn, lostAt, "VIP vs Non-VIP User Comparison",
                  "VIPUserComparison", <<>>, db["VIPUserComparison"], FALSE)
        c3 == UserRetention(c2, conn, lostAt, db)
    IN PlainSection(c3, conn, lostAt, "User Activity Analysis",
                    "UserActivityAnalysis", <<>>, db["UserActivityAnalysis"],
                    TRUE)

\* finance_dashboard(conn, start_date, end_date).
finance_dashboard(cache, conn, lostAt, start, end, db, cats, ui) ==
    LET c1 == PlainSection(StartRun(cache), conn, lostAt,
                  "Monthly Revenue Trend", "MonthlyRevenueTrendAnalysis",
                  <<>>, db["MonthlyRevenueTrendAnalysis"], FALSE)
        c2 == PlainSection(c1, conn, lostAt, "Payment Method Analysis",
                  "PaymentMethodAnalysis", <<>>, db["PaymentMethodAnalysis"],
                  TRUE)
        c3 == PlainSection(c2, conn, lostAt, "Failed Payments Analysis",
                  "FailedPaymentsAnalysis", <<2024>>,
                  db["FailedPaymentsAnalysis"], FALSE)
    IN PlainSection(c3, conn, lostAt, "User Spending Tiers",
                    "UserTierAnalysis", <<>>, db["UserTierAnalysis"], TRUE)

\* marketing_dashboard(conn, start_date, end_date): the category query
\* first; without categories it reports an error and returns. Each section
\* asks for the first category, the discount section for the session's
\* period.
marketing_dashboard(cache, conn, lostAt, start, end, db, cats, ui) ==
    LET q == CategoryQuery(StartRun(cache), lostAt, cats) IN
    IF q.ctx.status # "running" THEN q.ctx
    ELSE IF q.ret = "empty" THEN [q.ctx EXCEPT !.status = "returned"]
    ELSE LET c1 == PlainSection(q.ctx, conn, lostAt,
                       "Discount Profitability Analysis",
                       "AnalyzeDiscountProfitability",
                       <<AllCategories[1], start, end>>,
                       db["AnalyzeDiscountProfitability"], TRUE)
             c2 == PlainSection(c1, conn, lostAt,
                       "Quarterly Sales Pattern Analysis",
                       "QuarterlySalesAnalysis", <<AllCategories[1]>>,
                       db["QuarterlySalesAnalysis"], TRUE)
         IN PlainSection(c2, conn, lostAt,
                "Product Price Elasticity Analysis",
                "ProductPriceElasticityAnalysis", <<AllCategories[1]>>,
                db["ProductPriceElasticityAnalysis"], TRUE)

\* The stored procedures a controller calls.
ProcsOf(controller) ==
    CASE controller = "admin_dashboard" ->
            {"admin_business_overview", "admin_business_growth_trajectory",
             "admin_product_performance", "admin_market_penetration_by_region"}
      [] controller = "user_dashboard" ->
            {"ProvincialUserAnalysis", "VIPUserComparison",
             "UserRetentionAnalysis", "UserActivityAnalysis"}
      [] controller = "finance_dashboard" ->
            {"MonthlyRevenueTrendAnalysis", "PaymentMethodAnalysis",
             "FailedPaymentsAnalysis", "UserTierAnalysis"}
      [] controller = "marketing_dashboard" ->
            {"AnalyzeDiscountProfitability", "QuarterlySalesAnalysis",
             "ProductPriceElasticityAnalysis"}
      [] OTHER -> {}

\* What a procedure can do when called: rows, no row, or an error raised by
\* callproc; the growth trajectory may hold a month whose predecessor is a
\* DECIMAL zero (the KPI division raises), the retention result may lack
\* its '-Total' row.
OutcomesOf(proc_name) ==
    DbOutcomes \cup
    (CASE proc_name = "admin_business_growth_trajectory" -> {"zerodiv"}
       [] proc_name = "UserRetentionAnalysis"            -> {"nototal"}
       [] OTHER                                          -> {})

DbChoices(controller) ==
    {db \in [ProcsOf(controller) -> DbOutcomes \cup {"zerodiv", "nototal"}] :
        \A p \in ProcsOf(controller) : db[p] \in OutcomesOf(p)}

RunController(controller, cache, conn, lostAt, start, end, db, cats, ui) ==
    CASE controller = "admin_dashboard" ->
            admin_dashboard(cache, conn, lostAt, start, end, db, cats, ui)
      [] controller = "user_dashboard" ->
            user_dashboard(cache, conn, lostAt, start, end, db, cats, ui)
      [] controller = "finance_dashboard" ->
            finance_dashboard(cache, conn, lostAt, start, end, db, cats, ui)
      [] controller = "marketing_dashboard" ->
            marketing_dashboard(cache, conn, lostAt, start, end, db, cats, ui)

NoRender ==
    [controller |-> "none", status |-> "none", sections |-> <<>>,
     lost |-> FALSE]

\* main() reached the controller of the session's role: the sidebar's date
\* query succeeded, so the connection was usable when the controller began.
Dashboard(s, lostAt, db, cats, ui) ==
    /\ session[s].authenticated
    /\ session[s].conn # None
    /\ connOpen[session[s].conn]
    /\ \E r \in {RunController(ControllerOf(session[s].user_role), procCache,
                                session[s].conn, lostAt,
                                session[s].start_date, session[s].end_date,
                                db, cats, ui)} :
       LET st == session[s]
           c == ControllerOf(st.user_role)
           lost == lostAt > 0 /\ r.cursors >= lostAt
       IN
       /\ procCache' = r.cache
       /\ connOpen' = IF lost THEN [connOpen EXCEPT ![st.conn] = FALSE]
                              ELSE connOpen
       /\ render' = [controller |-> c,
                     status |-> IF r.status = "running" THEN "done"
                                ELSE r.status,
                     sections |-> r.sections, lost |-> lost]
    /\ UNCHANGED <<session, connCache, cast, out, gw, hist, series, derived>>

-----------------------------------------------------------------------------
(* Period-over-period derivations: finance_dashboard.py, admin_dashboard.py *)

\* A cell of a numeric column: a number v/d (d = 1 for the integers the
\* database delivers), SQL NULL, or an infinity.
Num(n) == [kind |-> "num", v |-> n, d |-> 1]
Null == [kind |-> "null", v |-> 0, d |-> 1]
Inf == [kind |-> "inf", v |-> 0, d |-> 1]

\* Arithmetic on numbers, exact: a quotient is kept as a fraction in lowest
\* terms with a positive denominator.
Abs(n) == IF n < 0 THEN -n ELSE n

RECURSIVE Gcd(_, _)
Gcd(a, b) == IF b = 0 THEN a ELSE Gcd(b, a % b)

Frac(n, d) ==
    LET g == Gcd(Abs(n), Abs(d))
        sgn == IF d < 0 THEN -1 ELSE 1
    IN [kind |-> "num", v |-> sgn * (n \div g), d |-> sgn * (d \div g)]

Minus(x, y) == Frac(x.v * y.d - y.v * x.d, x.d * y.d)
Over(x, y) == Frac(x.v * y.d, x.d * y.v)
Times(x, y) == Frac(x.v * y.v, x.d * y.d)

\* A monthly procedure result: rows of (month, value) in the order the
\* procedure returned them, and how the connector delivers the numeric
\* column ("float": floats, NULL as NaN; "decimal": Decimal objects, NULL
\* as None).
NoSeries == [rows |-> <<>>, numeric |-> "float"]

\* The rows kept in the order they came.
Unsorted(rows) == rows

\* The 'YYYY-MM' label the procedure gives period m, as <<year, month>>:
\* the periods are consecutive months running across a new year
\* (1 is 2023-11, 2 is 2023-12, 3 is 2024-01, ...).
MonthLabel(m) == <<2023 + ((m + 9) \div 12), ((m + 9) % 12) + 1>>

\* A sort key that reads the month of the year only.
to_datetime_MonthOfYear(label) == label[2]

\* pd.to_datetime(label + '-01'): the first day of that month, counted in
\* months.
to_datetime(label) == label[1] * 12 + label[2]

\* df.sort_values on the to_datetime column: ascending by that key; every
\* month occurs once.
SortByMonth(rows) ==
    LET n == Len(rows)
        key(i) == to_datetime(MonthLabel(rows[i].month))
        rank(i) == 1 + Cardinality({j \in 1..n : key(j) < key(i)})
    IN [k \in 1..n |-> rows[CHOOSE i \in 1..n : rank(i) = k]]

\* column.shift(1): the previous row's value, null for the first row.
Shift(values) ==
    [i \in 1..Len(values) |-> IF i = 1 THEN Null ELSE values[i - 1]]

\* column.replace(0, np.nan).
ReplaceZero(x) == IF x.kind = "num" /\ x.v = 0 THEN Null ELSE x

\* The growth taken relative to the current value instead of the previous.
GrowthRateOfCurrent(cur, prev) ==
    IF cur.kind # "num" \/ prev.kind # "num" \/ cur.v = 0 THEN Null
    ELSE Times(Over(Minus(cur, prev), cur), Num(100))

\* (cur - prev) / prev * 100 on columns: null wherever an operand is null.
GrowthRate(cur, prev) ==
    IF cur.kind # "num" \/ prev.kind # "num" THEN Null
    ELSE Times(Over(Minus(cur, prev), prev), Num(100))

\* finance_dashboard, "Monthly Revenue Trend": sort by month, growth
\* against the shifted column with zeros replaced by null, the latest
\* growth, and the growth points plotted (rows [1:], with two rows or more).
MonthlyGrowth(s) ==
    LET df == SortByMonth(s.rows)
        total == [i \in 1..Len(df) |-> df[i].value]
        prev == Shift(total)
        growth == [i \in 1..Len(df) |->
                      GrowthRate(total[i], ReplaceZero(prev[i]))]
    IN [op |-> "finance", raised |-> FALSE,
        months |-> [i \in 1..Len(df) |-> df[i].month],
        prev |-> prev,
        growth |-> growth,
        plotted |-> IF Len(df) >= 2
                    THEN {df[i].month : i \in 2..Len(df)} ELSE {},
        change |-> IF Len(df) >= 2 THEN growth[Len(df)] ELSE Null,
        display |-> IF Len(df) >= 2
                    THEN (IF growth[Len(df)] = Null THEN "nan%" ELSE "percent")
                    ELSE "N/A"]

\* (last / previous - 1) * 100 on two numbers.
ChangeRate(cur, prev) == Times(Minus(Over(cur, prev), Num(1)), Num(100))

\* (last / previous - 1) * 100 on two cells of a column: the division is
\* not guarded. Floats: x/0 is inf, 0/0 and anything with NaN is NaN.
\* Decimal objects: division by zero raises, and so does None.
ChangeOfCells(cur, prev, numeric) ==
    IF numeric = "float"
    THEN IF cur.kind # "num" \/ prev.kind # "num"
         THEN [raised |-> FALSE, change |-> Null]
         ELSE IF prev.v = 0
         THEN [raised |-> FALSE, change |-> IF cur.v = 0 THEN Null ELSE Inf]
         ELSE [raised |-> FALSE, change |-> ChangeRate(cur, prev)]
    ELSE IF cur.kind # "num" \/ prev.kind # "num" \/ prev.v = 0
         THEN [raised |-> TRUE, change |-> Null]
         ELSE [raised |-> FALSE, change |-> ChangeRate(cur, prev)]

\* admin_dashboard, "Business Overview": the month-over-month change of a
\* KPI column (Revenue, OrderCount, UniqueCustomers and AvgOrderValue use
\* the same expression): the last month against the one before it, 0 with
\* fewer than two months or no historical row at all. The KPI card shows
\* the change as its delta unless the change is falsy (0).
MonthOverMonth(s) ==
    LET df == SortByMonth(s.rows)
        n == Len(df)
        c == IF n > 1 THEN ChangeOfCells(df[n].value, df[n - 1].value, s.numeric)
                      ELSE [raised |-> FALSE, change |-> Num(0)]
    IN [op |-> "admin", raised |-> c.raised,
        months |-> [i \in 1..n |-> df[i].month],
        prev |-> IF n > 1 THEN <<df[n - 1].value>> ELSE <<>>,
        growth |-> <<>>, plotted |-> {},
        change |-> c.change,
        display |-> CASE c.raised           -> ""
                      [] c.change = Num(0)  -> "no_delta"
                      [] c.change = Null    -> "nan%"
                      [] c.change = Inf     -> "inf%"
                      [] OTHER              -> "percent"]

NoDerived ==
    [op |-> "none", raised |-> FALSE, months |-> <<>>, prev |-> <<>>,
     growth |-> <<>>, plotted |-> {}, change |-> Null, display |-> ""]

\* The series a procedure can return: up to MaxLen months, each once, in
\* any order, with small amounts or NULL.
MaxLen == 3
Months == 1..MaxLen
Amounts == {Null, Num(0), Num(1), Num(2), Num(100), Num(150)}

\* The orders in which n different months can arrive.
MonthOrders(n) ==
    {q \in [1..n -> Months] : \A i, j \in 1..n : i # j => q[i] # q[j]}

\* The rows holding the months p with the amounts v.
RowsOf(p, v) == [i \in 1..Len(p) |-> [month |-> p[i], value |-> v[i]]]

\* series is one of the series a procedure can return.
AllSeries(s) ==
    \E n \in 0..MaxLen : \E p \in MonthOrders(n) :
        \E v \in [1..n -> Amounts] : \E k \in {"float", "decimal"} :
            s = [rows |-> RowsOf(p, v), numeric |-> k]

\* finance_dashboard derives the growth of the revenue series.
FinanceRevenue ==
    /\ series.rows # <<>>
    /\ derived' = MonthlyGrowth(series)
    /\ UNCHANGED <<session, connCache, connOpen, procCache, cast, out, render,
                   gw, hist, series>>

\* admin_dashboard derives the KPI change of the historical series, which
\* may be empty.
AdminKpi ==
    /\ derived' = MonthOverMonth(series)
    /\ UNCHANGED <<session, connCache, connOpen, procCache, cast, out, render,
                   gw, hist, series>>

-----------------------------------------------------------------------------
(* Share of total: finance_dashboard.py, "User Spending Tiers"             *)

\* The tiers UserTierAnalysis reports, each with its user count (COUNT: a
\* non-negative integer, never NULL).
TierNames == <<"Platinum", "Gold", "Silver", "Bronze">>
MaxCount == 3

TierRows ==
    UNION {[1..n -> 0..MaxCount] : n \in 0..Len(TierNames)}

AllTierSets ==
    {[rows |-> [i \in 1..Len(c) |-> [tier |-> TierNames[i], count |-> c[i]]],
      numeric |-> "float"] : c \in TierRows}

RECURSIVE SumOf(_)
SumOf(counts) ==
    IF counts = <<>> THEN 0 ELSE Head(counts) + SumOf(Tail(counts))

\* Rounding that cuts the digits after the second decimal.
Truncate2(x) ==
    IF x.kind # "num" THEN x ELSE Frac((x.v * 100) \div x.d, 100)

\* Series.round(2) on a number: to hundredths, a half going to the even
\* neighbour; NaN and inf stay.
Round2(x) ==
    IF x.kind # "num" THEN x
    ELSE LET n == x.v * 100
             q == n \div x.d
             r == n % x.d
             h == IF 2 * r > x.d \/ (2 * r = x.d /\ q % 2 = 1)
                  THEN q + 1 ELSE q
         IN Frac(h, 100)

\* count / total * 100 on an integer column divided by a numpy integer:
\* no guard, 0/0 is NaN and x/0 is inf.
ShareOf(count, total) ==
    IF total = 0 THEN (IF count = 0 THEN Null ELSE Inf)
    ELSE Times(Over(Num(count), Num(total)), Num(100))

\* df_tiers['Percentage'] = (UserCount / UserCount.sum() * 100).round(2)
TierPercentages(s) ==
    LET counts == [i \in 1..Len(s.rows) |-> s.rows[i].count]
        total == SumOf(counts)
    IN [op |-> "share", raised |-> FALSE, total |-> total,
        shares |-> [i \in 1..Len(counts) |-> Round2(ShareOf(counts[i], total))]]

\* finance_dashboard derives the tier percentages of a non-empty result.
UserTiers ==
    /\ series.rows # <<>>
    /\ derived' = TierPercentages(series)
    /\ UNCHANGED <<session, connCache, connOpen, procCache, cast, out, render,
                   gw, hist, series>>

-----------------------------------------------------------------------------
(* 0-100 normalization: utils.py, admin_dashboard.py, marketing_dashboard.py *)

\* A metric column: up to MaxGroup rows of small integers, profit-like
\* columns going below zero.
MaxGroup == 3
MaxMetric == 2
MetricValues == (-1)..MaxMetric

AllColumns ==
    {[rows |-> c, numeric |-> "float"] :
        c \in UNION {[1..n -> MetricValues] : n \in 0..MaxGroup}}

MaxOf(values) ==
    CHOOSE x \in {values[i] : i \in 1..Len(values)} :
        \A i \in 1..Len(values) : values[i] <= x

MinOf(values) ==
    CHOOSE x \in {values[i] : i \in 1..Len(values)} :
        \A i \in 1..Len(values) : x <= values[i]

\* normalize_series(series): 50 everywhere when max == min, else the linear
\* rescale by the series' own min and max. (On an empty series max and min
\* are NaN, unequal, and the rescale of no element is the empty series.)
normalize_series(values) ==
    IF values = <<>> THEN <<>>
    ELSE IF MaxOf(values) = MinOf(values)
    THEN [i \in 1..Len(values) |-> Num(50)]
    ELSE [i \in 1..Len(values) |->
             Times(Over(Num(values[i] - MinOf(values)),
                        Num(MaxOf(values) - MinOf(values))), Num(100))]

\* value / max_val * 100 if max_val > 0 else 0: the normalization the
\* charts apply, max_val being the maximum of the whole column.
ScaleByMax(value, max_val) ==
    IF max_val > 0 THEN Times(Over(Num(value), Num(max_val)), Num(100))
    ELSE Num(0)

\* The call of normalize_series on a column.
NormalizeSeries ==
    /\ derived' = [op |-> "normalize_series", raised |-> FALSE,
                   group |-> series.rows,
                   normalized |-> normalize_series(series.rows)]
    /\ UNCHANGED <<session, connCache, connOpen, procCache, cast, out, render,
                   gw, hist, series>>

\* marketing_dashboard, "Quarterly Trend Comparison": every metric column
\* of the quarterly result scaled by its maximum.
QuarterlyTrend ==
    /\ series.rows # <<>>
    /\ derived' = [op |-> "quarterly", raised |-> FALSE,
                   group |-> series.rows,
                   normalized |-> [i \in 1..Len(series.rows) |->
                       ScaleByMax(series.rows[i], MaxOf(series.rows))]]
    /\ UNCHANGED <<session, connCache, connOpen, procCache, cast, out, render,
                   gw, hist, series>>

\* The rows of a column at the selected positions, in row order.
RECURSIVE Selected(_, _)
Selected(values, sel) ==
    IF values = <<>> THEN <<>>
    ELSE LET rest == Selected(SubSeq(values, 1, Len(values) - 1), sel) IN
         IF Len(values) \in sel THEN Append(rest, values[Len(values)])
         ELSE rest

\* admin_dashboard, "Regional Comparison" radar: the provinces selected
\* for comparison (sel, not empty), each value scaled by the maximum of the
\* column over all provinces of the result.
RegionalRadar(sel) ==
    /\ series.rows # <<>>
    /\ sel # {}
    /\ derived' = [op |-> "radar", raised |-> FALSE,
                   group |-> Selected(series.rows, sel),
                   normalized |->
                       [i \in 1..Len(Selected(series.rows, sel)) |->
                           ScaleByMax(Selected(series.rows, sel)[i],
                                      MaxOf(series.rows))]]
    /\ UNCHANGED <<session, connCache, connOpen, procCache, cast, out, render,
                   gw, hist, series>>

-----------------------------------------------------------------------------
(* Min/max annotation: admin_dashboard.py, "Category Performance Comparison" *)

\* The product rows admin_product_performance returns: up to MaxProducts
\* rows in any order, each with its category, revenue and discount.
MaxProducts == 3
ProductCategories == {1, 2, 3}

ProductRow == [category : ProductCategories, revenue : {100, 300},
               discount : {0, 10}]

AllProductSets ==
    {[rows |-> r, numeric |-> "float"] :
        r \in UNION {[1..n -> ProductRow] : n \in 0..MaxProducts}}

Leq(x, y) == x.v * y.d <= y.v * x.d

\* Ascending sequence of a set of integers.
RECURSIVE Ascending(_)
Ascending(S) ==
    IF S = {} THEN <<>>
    ELSE LET lo == CHOOSE x \in S : \A y \in S : x <= y
         IN <<lo>> \o Ascending(S \ {lo})

RECURSIVE SumField(_, _, _)
SumField(rows, cat, field) ==
    IF rows = <<>> THEN 0
    ELSE (IF Head(rows).category = cat THEN Head(rows)[field] ELSE 0)
         + SumField(Tail(rows), cat, field)

CountOf(rows, cat) ==
    Cardinality({i \in 1..Len(rows) : rows[i].category = cat})

\* df_products.groupby('Category').agg(sum / mean).reset_index(): one row
\* per category present, categories ascending, rows numbered from 0.
category_metrics(rows) ==
    LET cats == Ascending({rows[i].category : i \in 1..Len(rows)}) IN
    [k \in 1..Len(cats) |->
        [category |-> cats[k],
         revenue  |-> Num(SumField(rows, cats[k], "revenue")),
         discount |-> Frac(SumField(rows, cats[k], "discount"),
                           CountOf(rows, cats[k]))]]

Column(table, field) == [k \in 1..Len(table) |-> table[k][field]]

\* The last row holding the largest value.
idxmaxLast(col) ==
    CHOOSE i \in 0..(Len(col) - 1) :
        /\ \A j \in 1..Len(col) : Leq(col[j], col[i + 1])
        /\ \A j \in (i + 2)..Len(col) : col[j] # col[i + 1]

\* Series.idxmax(): the index (from 0) of the first row holding the largest
\* value; Series.idxmin() likewise for the smallest.
idxmax(col) ==
    CHOOSE i \in 0..(Len(col) - 1) :
        /\ \A j \in 1..Len(col) : Leq(col[j], col[i + 1])
        /\ \A j \in 1..i : col[j] # col[i + 1]

idxmin(col) ==
    CHOOSE i \in 0..(Len(col) - 1) :
        /\ \A j \in 1..Len(col) : Leq(col[i + 1], col[j])
        /\ \A j \in 1..i : col[j] # col[i + 1]

\* No field annotated the other way round.
NoInvertedFields == {}

\* The fields whose colour logic is reversed (lower discount is better).
InvertedFields == {"discount"}

AnnotatedFields == {"revenue", "discount"}

max_indices(table) ==
    [f \in AnnotatedFields |->
        IF f \in InvertedFields THEN idxmin(Column(table, f))
                                ELSE idxmax(Column(table, f))]

min_indices(table) ==
    [f \in AnnotatedFields |->
        IF f \in InvertedFields THEN idxmax(Column(table, f))
                                ELSE idxmin(Column(table, f))]

\* highlight_max_min on one column: the max row gets the max style, else
\* the min row the min style, every other row none.
highlight_max_min(n, max_idx, min_idx) ==
    [i \in 1..n |-> IF i - 1 = max_idx THEN "max"
                    ELSE IF i - 1 = min_idx THEN "min" ELSE ""]

\* admin_dashboard builds the category table of a non-empty product result
\* and annotates it.
CategoryTable ==
    /\ series.rows # <<>>
    /\ LET table == category_metrics(series.rows) IN
       derived' = [op |-> "annotate", raised |-> FALSE, table |-> table,
                   max_indices |-> max_indices(table),
                   min_indices |-> min_indices(table),
                   styles |-> [f \in AnnotatedFields |->
                                  highlight_max_min(Len(table),
                                      max_indices(table)[f],
                                      min_indices(table)[f])]]
    /\ UNCHANGED <<session, connCache, connOpen, procCache, cast, out, render,
                   gw, hist, series>>

-----------------------------------------------------------------------------
(* Ordering and top-10 slices: DataFrame.sort_values                       *)

\* df.sort_values(key), ascending, with its default kind='quicksort': the
\* rows come out in non-decreasing key order; the sort is not stable, so
\* rows of equal key come out in whichever order the sorting routine of the
\* build leaves them. The operator gives every order of the row numbers
\* 1..Len(keys) the call can return.
RECURSIVE OrdersOf(_, _)
OrdersOf(keys, remaining) ==
    IF remaining = {} THEN {<<>>}
    ELSE UNION {{<<i>> \o o : o \in OrdersOf(keys, remaining \ {i})} :
                   i \in {x \in remaining :
                             \A y \in remaining : keys[x] <= keys[y]}}

sort_values(keys) == OrdersOf(keys, 1..Len(keys))

\* df.sort_values(key, ascending=False).
sort_values_descending(keys) ==
    sort_values([i \in 1..Len(keys) |-> -keys[i]])

Reorder(rows, order) == [k \in 1..Len(order) |-> rows[order[k]]]

\* user_dashboard, "User Activity Analysis": one row per activity label,
\* in any order; labels outside the canonical order can occur.
activity_order == <<"Active", "Silent", "Lost", "No Orders">>
ActivityLabels ==
    {activity_order[i] : i \in 1..Len(activity_order)} \cup {"Dormant", "New"}
MaxLabels == 3

RECURSIVE LabelSeqs(_)
LabelSeqs(n) ==
    IF n = 0 THEN {<<>>}
    ELSE UNION {{Append(r, l) : l \in ActivityLabels \ {r[i] : i \in 1..Len(r)}} :
                   r \in LabelSeqs(n - 1)}

AllActivitySets ==
    {[rows |-> r, numeric |-> "float"] :
        r \in UNION {LabelSeqs(n) : n \in 0..MaxLabels}}

\* activity_order.index(x) if x in activity_order else len(activity_order),
\* from 0.
SortOrder(label) ==
    IF \E i \in 1..Len(activity_order) : activity_order[i] = label
    THEN (CHOOSE i \in 1..Len(activity_order) : activity_order[i] = label) - 1
    ELSE Len(activity_order)

\* user_dashboard orders the rows of a non-empty activity result.
ActivityOrder(order) ==
    /\ series.rows # <<>>
    /\ order \in sort_values([i \in 1..Len(series.rows) |->
                                 SortOrder(series.rows[i])])
    /\ derived' = [op |-> "activity", raised |-> FALSE,
                   rows |-> Reorder(series.rows, order)]
    /\ UNCHANGED <<session, connCache, connOpen, procCache, cast, out, render,
                   gw, hist, series>>

\* Top-10 slices: sort_values(by=field, ascending=False).head(10).
TopCount == 10

\* The row sets sliced: up to MaxRows rows; row i of n holds the value
\* ((i + shift) % n) + 1, all values different and the rows out of order,
\* except that with tie > 0 the row holding tie + 1 holds tie as well.
MaxRows == 11

SlicedRows(n, shift, tie) ==
    [i \in 1..n |->
        LET v == ((i + shift) % n) + 1 IN
        [id |-> i, value |-> IF tie > 0 /\ v = tie + 1 THEN tie ELSE v]]

AllRowSets ==
    {[rows |-> SlicedRows(n, p[1], p[2]), numeric |-> "float"] :
        n \in 0..MaxRows, p \in (0..MaxRows) \X (0..MaxRows)}

\* head(10).
Head10(rows) ==
    SubSeq(rows, 1, IF Len(rows) < TopCount THEN Len(rows) ELSE TopCount)

\* A dashboard takes the top 10 of a non-empty result (top products, top
\* provinces, top provinces by user count, top failed-payment days).
TopTen(order) ==
    /\ series.rows # <<>>
    /\ order \in sort_values_descending([i \in 1..Len(series.rows) |->
                                            series.rows[i].value])
    /\ derived' = [op |-> "top_n", raised |-> FALSE,
                   rows |-> Head10(Reorder(series.rows, order))]
    /\ UNCHANGED <<session, connCache, connOpen, procCache, cast, out, render,
                   gw, hist, series>>

-----------------------------------------------------------------------------
(* Category colours: marketing_dashboard.py, "Discount Profitability"      *)

\* The fixed palette of the discount levels, level by level.
DiscountLevels ==
    <<"0% (No Discount)", "0.01% to 10.00%", "10.01% to 20.00%",
      "20.01% to 30.00%", "30.01% to 40.00%", "Over 40.00%">>

PaletteColors ==
    <<"#1f77b4", "#ff7f0e", "#2ca02c", "#d62728", "#9467bd", "#8c564b">>

InPalette(level) == \E i \in 1..Len(DiscountLevels) : DiscountLevels[i] = level

discount_colors(level) ==
    PaletteColors[CHOOSE i \in 1..Len(DiscountLevels) : DiscountLevels[i] = level]

\* The levels a result can hold: those of the palette and one the palette
\* does not list; one row per level, up to MaxLevels rows in any order.
AllLevels == {DiscountLevels[i] : i \in 1..Len(DiscountLevels)} \cup {"Clearance"}
MaxLevels == 3

LevelRows(s) ==
    \E n \in 1..MaxLevels :
        \E q \in [1..n -> AllLevels] :
            /\ \A i, j \in 1..n : i # j => q[i] # q[j]
            /\ s = [rows |-> q, numeric |-> "float"]

\* [palette[level] for level in actual_levels if level in palette]: the
\* colours of the levels present, in the order the levels appear, levels
\* outside the palette skipped.
RECURSIVE color_sequence(_)
color_sequence(levels) ==
    IF levels = <<>> THEN <<>>
    ELSE (IF InPalette(Head(levels)) THEN <<discount_colors(Head(levels))>>
                                     ELSE <<>>)
         \o color_sequence(Tail(levels))

\* px.bar(color=level column, color_discrete_sequence=sequence): the k-th
\* distinct level in order of appearance is drawn with the k-th colour of
\* the sequence, cycling through it. With an empty sequence the figure is
\* not built from the palette at all (onEmpty: what the plotting library
\* does then).
px_bar(levels, sequence, onEmpty) ==
    IF sequence = <<>>
    THEN [k \in 1..Len(levels) |-> onEmpty]
    ELSE [k \in 1..Len(levels) |-> sequence[((k - 1) % Len(sequence)) + 1]]

DiscountTabs == {"Quantity Sold", "Unique Products", "Sales Revenue", "Profit"}

\* marketing_dashboard draws the four tabs of a non-empty discount result,
\* all of them with the one colour sequence.
DiscountCharts(onEmpty) ==
    /\ series.rows # <<>>
    /\ LET sequence == color_sequence(series.rows) IN
       derived' = [op |-> "colors", raised |-> FALSE,
                   drawn |-> [tab \in DiscountTabs |->
                                 px_bar(series.rows, sequence, onEmpty)]]
    /\ UNCHANGED <<session, connCache, connOpen, procCache, cast, out, render,
                   gw, hist, series>>

-----------------------------------------------------------------------------
(* Dual-axis binding: admin_dashboard.py, "Business Growth Trajectory"     *)

\* The metrics the multiselect offers.
metric_columns ==
    {"Order Count", "Unique Customers", "Revenue", "Avg Order Value",
     "Revenue Per Customer", "Orders Per 100 Users"}

\* A selection: up to MaxSelected different metrics, in the order chosen.
MaxSelected == 3

Selections(s) ==
    \E n \in 0..MaxSelected :
        \E q \in [1..n -> metric_columns] :
            /\ \A i, j \in 1..n : i # j => q[i] # q[j]
            /\ s = [rows |-> q, numeric |-> "float"]

\* The axis of a metric's trace: 'y' for Revenue, 'y2' for any other.
yaxis(metric) == IF metric \in {"Revenue"} THEN "y" ELSE "y2"

\* admin_dashboard draws the growth chart of a non-empty selection: one
\* trace per selected metric, in selection order.
GrowthChart ==
    /\ series.rows # <<>>
    /\ derived' = [op |-> "axes", raised |-> FALSE,
                   traces |-> [k \in 1..Len(series.rows) |->
                                  [name |-> series.rows[k],
                                   yaxis |-> yaxis(series.rows[k])]]]
    /\ UNCHANGED <<session, connCache, connOpen, procCache, cast, out, render,
                   gw, hist, series>>

-----------------------------------------------------------------------------
(* Specifications                                                          *)

InitNeutral ==
    /\ procCache = {}
    /\ out = NoOut
    /\ render = NoRender
    /\ gw = NoGw
    /\ hist = {}
    /\ series = NoSeries
    /\ derived = NoDerived

Init ==
    /\ InitNeutral
    /\ cast \in Usernames
    /\ session = [s \in Sessions |-> init_auth_state]
    /\ connCache = [u \in Usernames |-> "uncached"]
    /\ connOpen = [u \in Usernames |-> FALSE]

QueryOutcomes == {"ok", "null", "error"}
Clicks == {"none", "refresh", "logout"}

Next ==
    \/ \E s \in Sessions : RenderLogin(s)
    \/ \E s \in Sessions, u \in LoginNames, p \in LoginPasswords,
          reachable \in BOOLEAN : LoginClick(s, u, p, reachable)
    \/ \E s \in Sessions, click \in Clicks, q \in QueryOutcomes :
          \E w \in WidgetStates(get_date_range(session[s].conn, TRUE, q).range) :
             RenderDashboard(s, click, q, w)

Spec == Init /\ [][Next]_vars

\* Two sessions logged in under the same account: init_connection handed
\* both the one connection it stores for that username. Nothing cached yet.
LoggedIn(u) ==
    [init_auth_state EXCEPT !.authenticated = TRUE, !.username = u,
                            !.user_role = RoleOf(u), !.conn = u]

InitGateway ==
    /\ InitNeutral
    /\ cast = "marketing_analyst"
    /\ session = [s \in Sessions |-> LoggedIn(cast)]
    /\ connCache = [u \in Usernames |-> IF u = cast THEN "conn" ELSE "uncached"]
    /\ connOpen = [u \in Usernames |-> u = cast]

HeldConnections == {session[s].conn : s \in Sessions} \ {None}

NextGateway ==
    \/ \E c \in HeldConnections \cup {None}, call \in GatewayCalls,
          outcome \in DbOutcomes : GatewayCall(c, call[1], call[2], outcome)
    \/ ClearCache
    \/ Tick
    \/ \E c \in HeldConnections : ConnectionClosed(c)

SpecGateway == InitGateway /\ [][NextGateway]_vars

\* A session logged in and past its first sidebar: the filter holds the full
\* observed range, the connection is open, nothing is cached.
MaxLost == 2

\* The widgets and the category table matter to the controllers that read
\* them: the category multiselect is the administrator's, the category
\* query the administrator's and the marketing analyst's.
WidgetChoices(controller) ==
    IF controller = "admin_dashboard"
    THEN [metrics : {TRUE}, categories : BOOLEAN]
    ELSE [metrics : {TRUE}, categories : {TRUE}]

CategoryChoices(controller) ==
    IF controller \in {"admin_dashboard", "marketing_dashboard"}
    THEN {"rows", "empty"}
    ELSE {"rows"}

InitRender ==
    /\ InitNeutral
    /\ cast \in Usernames
    /\ session = [s \in Sessions |->
                    IF s = "s1"
                    THEN [LoggedIn(cast) EXCEPT !.start_date = ObsMin,
                                                !.end_date = ObsMax]
                    ELSE init_auth_state]
    /\ connCache = [u \in Usernames |-> IF u = cast THEN "conn" ELSE "uncached"]
    /\ connOpen = [u \in Usernames |-> u = cast]

NextRender ==
    \/ \E s \in Sessions :
          \E db \in DbChoices(ControllerOf(session[s].user_role)) :
             \E lostAt \in 0..MaxLost,
                cats \in CategoryChoices(ControllerOf(session[s].user_role)),
                ui \in WidgetChoices(ControllerOf(session[s].user_role)) :
                Dashboard(s, lostAt, db, cats, ui)
    \/ ClearCache
    \/ Tick

SpecRender == InitRender /\ [][NextRender]_vars

\* A monthly series has arrived; nobody is logged in.
InitGrowth ==
    /\ procCache = {} /\ out = NoOut /\ render = NoRender /\ gw = NoGw
    /\ hist = {}
    /\ cast = "finance_analyst"
    /\ session = [s \in Sessions |-> init_auth_state]
    /\ connCache = [u \in Usernames |-> "uncached"]
    /\ connOpen = [u \in Usernames |-> FALSE]
    /\ AllSeries(series)
    /\ derived = NoDerived

NextGrowth ==
    \/ FinanceRevenue
    \/ AdminKpi

SpecGrowth == InitGrowth /\ [][NextGrowth]_vars

\* A pure derivation starts from a procedure result; nobody is logged in.
InitDerivation ==
    /\ procCache = {} /\ out = NoOut /\ render = NoRender /\ gw = NoGw
    /\ hist = {}
    /\ cast = "finance_analyst"
    /\ session = [s \in Sessions |-> init_auth_state]
    /\ connCache = [u \in Usernames |-> "uncached"]
    /\ connOpen = [u \in Usernames |-> FALSE]
    /\ derived = NoDerived

InitShare == InitDerivation /\ series \in AllTierSets

NextShare == UserTiers

SpecShare == InitShare /\ [][NextShare]_vars

InitNormalize == InitDerivation /\ series \in AllColumns

NextNormalize ==
    \/ NormalizeSeries
    \/ QuarterlyTrend
    \/ \E sel \in SUBSET (1..Len(series.rows)) : RegionalRadar(sel)

SpecNormalize == InitNormalize /\ [][NextNormalize]_vars

InitAnnotate == InitDerivation /\ series \in AllProductSets

NextAnnotate == CategoryTable

SpecAnnotate == InitAnnotate /\ [][NextAnnotate]_vars

\* The orders of n row numbers.
OrdersOfLength(n) == {o \in [1..n -> 1..n] : \A i, j \in 1..n : i # j => o[i] # o[j]}

InitOrder == InitDerivation /\ series \in AllActivitySets

NextOrder ==
    \E order \in OrdersOfLength(Len(series.rows)) : ActivityOrder(order)

SpecOrder == InitOrder /\ [][NextOrder]_vars

InitTopN == InitDerivation /\ series \in AllRowSets

NextTopN ==
    \E order \in sort_values_descending([i \in 1..Len(series.rows) |->
                                            series.rows[i].value]) :
        TopTen(order)

SpecTopN == InitTopN /\ [][NextTopN]_vars

InitColors == InitDerivation /\ LevelRows(series)

NextColors == \E onEmpty \in {"raise", "default"} : DiscountCharts(onEmpty)

SpecColors == InitColors /\ [][NextColors]_vars

InitAxes == InitDerivation /\ Selections(series)

NextAxes == GrowthChart

SpecAxes == InitAxes /\ [][NextAxes]_vars

-----------------------------------------------------------------------------
(* Claims about the session/auth shell (Spec)                              *)

\* C5 (as stated): a session's connection is its own: in every reachable
\* state no two sessions hold the same connection object.
C5_ExclusiveConnection ==
    \A s \in Sessions, t \in Sessions :
        s # t /\ session[s].conn # None => session[s].conn # session[t].conn

BadCredentials(username, password) ==
    username \notin DOMAIN credentials \/ password # credentials[username]

\* C6: a login attempt with bad credentials returns False, leaves every
\* field of every session as it was (the session stays unauthenticated),
\* attempts no database connection (none opened, none cached) and shows
\* "Invalid username or password".
C6_BadCredentialsRejected ==
    [][out'.op = "login" /\ BadCredentials(out'.user, out'.pass) =>
          /\ ~out'.ok
          /\ session' = session
          /\ ~session'[out'.s].authenticated
          /\ ~out'.connectTried
          /\ connCache' = connCache
          /\ connOpen' = connOpen
          /\ out'.msg = "Invalid username or password"]_vars

\* C6 witness: a bad-credential attempt was rejected in a session that had
\* been logged in before (its date filter is set) while the connection of
\* the account stays cached and another session may be using it.
C6_Witness ==
    /\ out.op = "login" /\ BadCredentials(out.user, out.pass) /\ ~out.ok
    /\ out.user \in Usernames /\ out.pass # credentials[cast]
    /\ session[out.s].start_date # NoDate
    /\ connCache[cast] = "conn"

\* The run of main() out describes reached the controller.
Dispatched == out.op = "render" /\ out.status = "dispatched"

\* C8 (as stated): whenever a controller is invoked the session's dates are
\* set, ordered, and within the observed [min, max] order date; untouched,
\* or with anything but two dates in the widget, the filter is the full
\* observed range.
C8_Original ==
    Dispatched =>
        LET st == session[out.s] IN
        /\ st.start_date # NoDate /\ st.end_date # NoDate
        /\ st.start_date <= st.end_date
        /\ ObsMin <= st.start_date /\ st.end_date <= ObsMax
        /\ (~out.touched \/ out.widgetLen # 2 =>
               <<st.start_date, st.end_date>> = ObservedRange)

\* C8 (amended): whenever a controller is invoked the session's dates are
\* set, ordered, and within the range get_date_range returned in that run:
\* the observed [min, max] order date when its query succeeded and found
\* orders, otherwise [now - 365 days, now]; untouched, or with anything but
\* two dates in the widget, the filter is that full range.
C8_FilterWithinQueriedRange ==
    Dispatched =>
        LET st == session[out.s] IN
        /\ st.start_date # NoDate /\ st.end_date # NoDate
        /\ st.start_date <= st.end_date
        /\ out.range = IF out.query = "ok" THEN ObservedRange
                                           ELSE FallbackRange
        /\ out.range[1] <= st.start_date /\ st.end_date <= out.range[2]
        /\ (~out.touched \/ out.widgetLen # 2 =>
               <<st.start_date, st.end_date>> = out.range)

\* C8 witness: the date query failed, the user left a single day in the
\* widget, and the controller was invoked with the fallback range.
C8_Witness ==
    /\ Dispatched /\ out.query = "error" /\ out.touched /\ out.widgetLen = 1
    /\ <<session[out.s].start_date, session[out.s].end_date>> = FallbackRange

\* The role and the controller the specification associates with each
\* username.
StaticRole ==
    [db_admin          |-> "admin_role",
     user_analyst      |-> "user_analyst_role",
     finance_analyst   |-> "finance_analyst_role",
     marketing_analyst |-> "marketing_analyst_role"]

StaticController ==
    [db_admin          |-> "admin_dashboard",
     user_analyst      |-> "user_dashboard",
     finance_analyst   |-> "finance_dashboard",
     marketing_analyst |-> "marketing_dashboard"]

\* The run of main() out describes was a run on an authenticated session.
AuthenticatedRun == out.op \in {"render", "logout"}

C22_AuthenticatedConnectionUsable ==
    \A s \in Sessions :
        session[s].authenticated =>
            /\ session[s].conn # None
            /\ connOpen[session[s].conn]

\* C23 (as stated): a login attempt with the right username and password
\* succeeds whenever the database is reachable at that attempt, and after an
\* attempt that could not connect a later one tries to connect again.
C23_LoginRetriesConnection ==
    [][out'.op = "login" /\ ~BadCredentials(out'.user, out'.pass) =>
          /\ out'.reachable => out'.ok
          /\ connCache[out'.user] = "None" => out'.connectTried]_vars

\* C25: after any sequence of login attempts, logouts and renders every
\* session is consistent: authenticated iff it holds a connection; then its
\* username is one of the four known ones and its role the one assigned to
\* that username; otherwise username and role are empty.
C25_SessionConsistent ==
    \A s \in Sessions :
        LET st == session[s] IN
        /\ st.authenticated <=> st.conn # None
        /\ st.authenticated =>
              /\ st.username \in DOMAIN StaticRole
              /\ st.user_role = StaticRole[st.username]
        /\ ~st.authenticated =>
              /\ st.username = "" /\ st.user_role = "" /\ st.conn = None

\* C25 witness: a session that had rendered its dashboard has just logged
\* out while the other one is logged in.
C25_Witness ==
    /\ out.op = "logout"
    /\ ~session[out.s].authenticated
    /\ session[out.s].start_date # NoDate
    /\ \E s \in Sessions : session[s].authenticated

\* C26: a run of main() on an unauthenticated session shows only the login
\* page: no controller is invoked, no date-range query made and no stored
\* procedure called (the procedure cache is untouched), whatever happened
\* before.
C26_UnauthenticatedSeesOnlyLogin ==
    [][\A s \in Sessions :
          out'.s = s /\ ~session[s].authenticated =>
             /\ out'.op \in {"login_page", "login"}
             /\ out'.controller = "none"
             /\ ~out'.dateQuery
             /\ out'.rangeSrc = "none"
             /\ procCache' = procCache]_vars

\* C26 witness: the login page is shown to a session that was logged in
\* before and logged out (its date filter is set, the connection it closed
\* is still cached).
C26_Witness ==
    /\ out.op = "login_page"
    /\ ~session[out.s].authenticated
    /\ session[out.s].start_date # NoDate
    /\ connCache[cast] = "conn" /\ ~connOpen[cast]

-----------------------------------------------------------------------------
(* Claims about the dashboard controllers (SpecRender)                     *)

\* The sections the last controller invocation went through, in order.
Visited == [i \in 1..Len(render.sections) |-> render.sections[i].id]

\* C1 (as stated): whatever is empty, and nothing having raised, the render
\* visits every section of the controller's ordered list and reaches DONE.
C1_VisitsEverySection ==
    render.controller # "none" /\ render.status # "exception" =>
        /\ render.status = "done"
        /\ Visited = SectionsOf(render.controller)

\* C2 (as stated): a fetch failure or a derivation failure in one section
\* never aborts the sibling sections or the page: every controller
\* invocation runs to its end, no exception leaving it.
C2_FailureNeverAborts ==
    render.controller # "none" => render.status # "exception"

\* C3 (as stated): a section shows the "no data" placeholder exactly when
\* its stored procedure returned an empty result.
C3_PlaceholderIffEmpty ==
    \A i \in 1..Len(render.sections) :
        "no_data" \in render.sections[i].shown
            <=> render.sections[i].result = "empty"

-----------------------------------------------------------------------------
(* Claims about the period-over-period derivations (SpecGrowth)            *)

\* The earliest month of the series.
Earliest ==
    CHOOSE m \in {series.rows[i].month : i \in 1..Len(series.rows)} :
        \A i \in 1..Len(series.rows) : m <= series.rows[i].month

\* C9: for every series with at least one period the growth computed for
\* the earliest period is null, not zero, and the earliest period is not
\* among the growth points plotted.
C9_FirstGrowthIsNull ==
    derived.op = "finance" /\ Len(series.rows) >= 1 =>
        /\ Len(derived.growth) = Len(series.rows)
        /\ \A i \in 1..Len(derived.months) :
              derived.months[i] = Earliest => derived.growth[i] = Null
        /\ Earliest \notin derived.plotted

\* C9 witness: the procedure returned three months out of order, none of
\* them empty; the growth was derived and the later months plotted.
C9_Witness ==
    /\ derived.op = "finance" /\ Len(series.rows) = 3
    /\ series.rows[1].month # Earliest
    /\ \A i \in 1..3 : series.rows[i].value \in {Num(1), Num(2)}
    /\ derived.plotted # {}

\* C11 (as stated): on an empty or single-element series the computation
\* does not raise and its result is all-null: the latest growth / the
\* month-over-month change is null, never a number such as 0.
C11_ShortSeriesAllNull ==
    derived.op \in {"finance", "admin"} /\ Len(series.rows) < 2 =>
        /\ ~derived.raised
        /\ \A i \in 1..Len(derived.growth) : derived.growth[i] = Null
        /\ derived.change = Null

\* The values of the series in month order.
SortedValues ==
    LET df == SortByMonth(series.rows) IN [i \in 1..Len(df) |-> df[i].value]

\* The specification's formula (value[i] / value[i-1] - 1) * 100 on two
\* numbers, by cross-multiplication: the fraction p/q with
\* p = 100 * (cur - prev) and q = prev, in integers.
SameFraction(r, cur, prev) ==
    /\ r.kind = "num"
    /\ r.v * (prev.v * cur.d) = 100 * (cur.v * prev.d - prev.v * cur.d) * r.d

C10_ZeroOrNullPreviousGivesNull ==
    /\ ~derived.raised
    /\ derived.op = "finance" =>
          \A i \in 1..Len(derived.growth) :
              derived.prev[i] \in {Null, Num(0)} => derived.growth[i] = Null
    /\ derived.op = "admin" /\ Len(derived.prev) = 1 =>
          (derived.prev[1] \in {Null, Num(0)} => derived.change = Null)

\* The value the series holds for period m.
ValueOf(m) ==
    series.rows[CHOOSE i \in 1..Len(series.rows) : series.rows[i].month = m].value

\* C28: whatever order the rows arrive in, the derivation works on the
\* periods in chronological order: each period's growth is taken against
\* the chronologically preceding period of the series, and the admin change
\* compares the two chronologically latest periods.
C28_SortedBeforeShift ==
    derived.op \in {"finance", "admin"} =>
        LET mo == derived.months
            n == Len(mo)
        IN
        /\ n = Len(series.rows)
        /\ {mo[i] : i \in 1..n} = {series.rows[i].month : i \in 1..n}
        /\ \A i \in 1..(n - 1) : mo[i] < mo[i + 1]
        /\ derived.op = "finance" =>
              \A i \in 1..n :
                 /\ derived.prev[i] = IF i = 1 THEN Null ELSE ValueOf(mo[i - 1])
                 /\ derived.growth[i] =
                       IF i = 1 THEN Null
                       ELSE GrowthRate(ValueOf(mo[i]),
                                       ReplaceZero(ValueOf(mo[i - 1])))
        /\ derived.op = "admin" /\ n > 1 =>
              /\ derived.prev = <<ValueOf(mo[n - 1])>>
              /\ derived.change =
                    ChangeOfCells(ValueOf(mo[n]), ValueOf(mo[n - 1]),
                                  series.numeric).change

\* C28 witness: three months across the new year arrived latest first
\* (2024-01, then 2023-11, then 2023-12) and the admin change compared
\* 2024-01 with 2023-12.
C28_Witness ==
    /\ derived.op = "admin" /\ ~derived.raised
    /\ Len(series.rows) = 3
    /\ <<series.rows[1].month, series.rows[2].month, series.rows[3].month>>
          = <<3, 1, 2>>
    /\ <<series.rows[1].value, series.rows[2].value, series.rows[3].value>>
          = <<Num(150), Num(2), Num(100)>>
    /\ derived.change = Num(50)

-----------------------------------------------------------------------------
(* Claims about the share of total (SpecShare)                             *)

\* C13 (as stated): on a row set whose counts sum to 0 every share is 0:
\* no NaN, no undefined value, no exception.
C13_ZeroSumGivesZeroShares ==
    derived.op = "share" /\ derived.total = 0 =>
        /\ ~derived.raised
        /\ \A i \in 1..Len(derived.shares) : derived.shares[i] = Num(0)

\* The sum of the shares, in hundredths of a percent.
RECURSIVE Hundredths(_)
Hundredths(shares) ==
    IF shares = <<>> THEN 0
    ELSE (Head(shares).v * 100) \div Head(shares).d + Hundredths(Tail(shares))

ShareInRange(x) == x.kind = "num" /\ 0 <= x.v /\ x.v <= 100 * x.d

\* C14 (as stated, the tolerance being the specification's floating
\* tolerance): on a positive sum the rounded shares add up to 100 and each
\* lies in [0, 100].
C14_Original ==
    derived.op = "share" /\ derived.total > 0 =>
        /\ \A i \in 1..Len(derived.shares) : ShareInRange(derived.shares[i])
        /\ Hundredths(derived.shares) = 10000

\* C14 (amended): on a positive sum each share, rounded to two decimals,
\* lies in [0, 100], and the shares add up to 100 within 0.005 per row,
\* the error of the rounding (three equal rows give 99.99).
C14_SharesSumWithinRounding ==
    derived.op = "share" /\ derived.total > 0 =>
        /\ \A i \in 1..Len(derived.shares) : ShareInRange(derived.shares[i])
        /\ 2 * Abs(Hundredths(derived.shares) - 10000) <= Len(derived.shares)

\* C14 witness: three tiers of one user each: 33.33 each, 99.99 together.
C14_Witness ==
    /\ derived.op = "share" /\ derived.total = 3 /\ Len(derived.shares) = 3
    /\ \A i \in 1..3 : derived.shares[i] = Frac(3333, 100)

-----------------------------------------------------------------------------
(* Claims about the 0-100 normalization (SpecNormalize)                    *)

Normalized == derived.op \in {"normalize_series", "quarterly", "radar"}

\* C15 (as stated): for every compared group in which max == min the
\* normalization maps every element to 50, in normalize_series and in the
\* radar and quarterly charts.
C15_EqualGroupMapsTo50 ==
    Normalized /\ derived.group # <<>>
               /\ MaxOf(derived.group) = MinOf(derived.group) =>
        \A i \in 1..Len(derived.normalized) : derived.normalized[i] = Num(50)

\* C16 (as stated): for every compared group with max > min the group's
\* minimum maps to 0, its maximum to 100, and every normalized value lies
\* in [0, 100].
C16_LinearRescaleByGroup ==
    Normalized /\ derived.group # <<>>
               /\ MaxOf(derived.group) > MinOf(derived.group) =>
        \A i \in 1..Len(derived.group) :
            LET x == derived.normalized[i] IN
            /\ x.kind = "num" /\ 0 <= x.v /\ x.v <= 100 * x.d
            /\ derived.group[i] = MinOf(derived.group) => x = Num(0)
            /\ derived.group[i] = MaxOf(derived.group) => x = Num(100)

-----------------------------------------------------------------------------
(* Claims about the min/max annotation (SpecAnnotate)                      *)

\* Row i (from 0) of a column holds its largest / smallest value.
HoldsLargest(col, i) == \A j \in 1..Len(col) : Leq(col[j], col[i + 1])
HoldsSmallest(col, i) == \A j \in 1..Len(col) : Leq(col[i + 1], col[j])

\* C17: for the inverted field (the average discount) the max and min row
\* indices are those of the non-inverted computation swapped: the row
\* annotated max holds the smallest value, the row annotated min the
\* largest; for a non-inverted field max is the largest, min the smallest.
C17_InvertedFieldSwaps ==
    derived.op = "annotate" =>
        LET disc == Column(derived.table, "discount")
            rev == Column(derived.table, "revenue")
        IN /\ derived.max_indices["discount"] = idxmin(disc)
           /\ derived.min_indices["discount"] = idxmax(disc)
           /\ HoldsSmallest(disc, derived.max_indices["discount"])
           /\ HoldsLargest(disc, derived.min_indices["discount"])
           /\ HoldsLargest(rev, derived.max_indices["revenue"])
           /\ HoldsSmallest(rev, derived.min_indices["revenue"])

\* C17 witness: a table of three categories whose discounts differ while
\* the revenues rise with them: the row annotated max for the discount is
\* the one annotated min for the revenue.
C17_Witness ==
    /\ derived.op = "annotate" /\ Len(derived.table) = 3
    /\ Column(derived.table, "discount") = <<Num(0), Num(10), Num(10)>>
    /\ Column(derived.table, "revenue") = <<Num(100), Num(300), Num(300)>>
    /\ derived.max_indices["discount"] = 0 /\ derived.min_indices["discount"] = 1
    /\ derived.max_indices["revenue"] = 1 /\ derived.min_indices["revenue"] = 0

\* C18: ties go to the first occurrence in the order of the annotated
\* table's rows: the max index is the first row holding the maximum, the
\* min index the first row holding the minimum (Revenue [100, 300, 100]
\* gives max 1 and min 0), both are row 0 when all values are equal; the
\* highlighting marks each annotated row, a row that is both max and min
\* getting one style.
C18_TiesFirstOccurrence ==
    derived.op = "annotate" =>
        LET rev == Column(derived.table, "revenue")
            mx == derived.max_indices["revenue"]
            mn == derived.min_indices["revenue"]
            st == derived.styles["revenue"]
        IN /\ HoldsLargest(rev, mx) /\ \A j \in 1..mx : rev[j] # rev[mx + 1]
           /\ HoldsSmallest(rev, mn) /\ \A j \in 1..mn : rev[j] # rev[mn + 1]
           /\ rev = <<Num(100), Num(300), Num(100)>> => mx = 1 /\ mn = 0
           /\ (\A j \in 1..Len(rev) : rev[j] = rev[1]) => mx = 0 /\ mn = 0
           /\ \A i \in 1..Len(rev) :
                 /\ st[i] # "" <=> (i - 1 = mx \/ i - 1 = mn)
                 /\ i - 1 = mx => st[i] = "max"
                 /\ i - 1 = mn /\ mn # mx => st[i] = "min"

\* C18 witness: the procedure returned category 3 first; the table's
\* revenue column reads [100, 300, 100] and rows 1 and 0 are annotated.
C18_Witness ==
    /\ derived.op = "annotate"
    /\ series.rows[1].category = 3
    /\ Column(derived.table, "revenue") = <<Num(100), Num(300), Num(100)>>
    /\ derived.styles["revenue"] = <<"min", "max", "">>

-----------------------------------------------------------------------------
(* Claims about ordering and top-10 slices (SpecOrder, SpecTopN)           *)

\* The position of a row of the input in a sequence of rows.
PositionIn(rows, row) == CHOOSE k \in 1..Len(rows) : rows[k] = row

Known(label) == SortOrder(label) < Len(activity_order)

\* C19 (as stated): ordering by the canonical order places the known labels
\* by canonical rank and every unknown label after all known ones, the
\* unknown rows keeping their input order among themselves.
C19_UnknownLabelsLastInInputOrder ==
    derived.op = "activity" =>
        /\ Len(derived.rows) = Len(series.rows)
        /\ \A i, j \in 1..Len(derived.rows) :
              i < j =>
                 /\ SortOrder(derived.rows[i]) <= SortOrder(derived.rows[j])
                 /\ ~Known(derived.rows[i]) /\ ~Known(derived.rows[j]) =>
                       PositionIn(series.rows, derived.rows[i])
                           < PositionIn(series.rows, derived.rows[j])

\* C20 (as stated): a top-10 slice holds exactly min(10, number of rows)
\* rows, sorted descending by the field, rows of equal value in their
\* input order.
C20_TopTenStable ==
    derived.op = "top_n" =>
        /\ Len(derived.rows) = IF Len(series.rows) < 10 THEN Len(series.rows)
                                                         ELSE 10
        /\ \A i, j \in 1..Len(derived.rows) :
              i < j =>
                 /\ derived.rows[i].value >= derived.rows[j].value
                 /\ derived.rows[i].value = derived.rows[j].value =>
                       derived.rows[i].id < derived.rows[j].id
        /\ \A r \in {series.rows[i] : i \in 1..Len(series.rows)} :
              \A k \in 1..Len(derived.rows) :
                 (r.value > derived.rows[k].value
                    \/ (r.value = derived.rows[k].value
                          /\ r.id < derived.rows[k].id)) =>
                    \E m \in 1..Len(derived.rows) : derived.rows[m] = r

-----------------------------------------------------------------------------
(* Claims about the category colours (SpecColors)                          *)

\* C29 (as stated): the same level always renders the same colour: for
\* every set and order of levels returned, including sets with a level the
\* palette does not list, every level of the palette is drawn with its
\* palette colour in every tab.
C29_PaletteColorPerLevel ==
    derived.op = "colors" =>
        \A tab \in DiscountTabs : \A k \in 1..Len(series.rows) :
            InPalette(series.rows[k]) =>
                derived.drawn[tab][k] = discount_colors(series.rows[k])

-----------------------------------------------------------------------------
(* Claims about the dual-axis binding (SpecAxes)                           *)

\* C30 (as stated): for every non-empty selection each series carries
\* exactly one axis tag, one series (the primary one) is on axis 1 and every
\* other selected metric on axis 2: every chart drawn has exactly one series
\* on axis 1.
C30_OnePrimarySeries ==
    derived.op = "axes" =>
        LET tr == derived.traces
            onAxis1 == {k \in 1..Len(tr) : tr[k].yaxis = "y"}
        IN
        /\ Len(tr) = Len(series.rows)
        /\ \A k \in 1..Len(tr) :
              tr[k].name = series.rows[k] /\ tr[k].yaxis \in {"y", "y2"}
        /\ Cardinality(onAxis1) = 1
        /\ \A k \in 1..Len(tr) : k \notin onAxis1 => tr[k].yaxis = "y2"

-----------------------------------------------------------------------------
(* Claims about the procedure gateway (SpecGateway)                        *)

\* C4 (as stated): call_stored_procedure never propagates a failure: for
\* every connection state and every outcome of the procedure call it returns
\* a list, the empty list on any failure, and the cursor it opened is closed.
C4_NeverPropagates ==
    gw.op = "call" =>
        /\ ~gw.raised
        /\ gw.ret \in {"rows", "empty"}
        /\ (~gw.hit /\ (gw.error \/ gw.connState # "open") => gw.ret = "empty")
        /\ (gw.cursorOpened => gw.cursorClosed)

\* The entries procCache holds for (name, params).
EntriesFor(name, params) ==
    {e \in procCache : e.key[1] = name /\ e.key[2] = params}

\* C7 (as stated): a call returns a stored result without invoking the
\* database exactly when a call with the same name and parameters completed
\* less than 600 seconds earlier with no cache clear in between; otherwise the
\* procedure is invoked again and its result replaces the entry. Stated for
\* calls on an open connection.
C7_Original ==
    gw.op = "call" /\ gw.connState = "open" =>
        IF gw.calledRecently
        THEN gw.hit /\ ~gw.invoked
        ELSE /\ ~gw.hit /\ gw.invoked
             /\ EntriesFor(gw.name, gw.params) =
                    {[key |-> CacheKey(gw.conn, gw.name, gw.params),
                      val |-> gw.ret, age |-> 0]}

\* C7 (amended): results are cached by (name, params) only. A call is served
\* from the cache, touching neither the database nor the entry, exactly when
\* a call with the same name and parameters ran the body and returned less
\* than 600 seconds earlier with no cache clear in between (a call served
\* from the cache does not renew the entry). Otherwise the body runs: it
\* invokes the procedure if its connection is open, and what it returns
\* replaces the entry; on a closed connection it raises and stores nothing.
C7_CacheByNameAndParams ==
    gw.op = "call" =>
        /\ gw.hit <=> gw.storedRecently
        /\ gw.hit => /\ ~gw.invoked /\ ~gw.cursorOpened /\ ~gw.cacheChanged
                     /\ \E e \in EntriesFor(gw.name, gw.params) : e.val = gw.ret
        /\ ~gw.hit => (gw.invoked <=> gw.connState = "open")
        /\ ~gw.hit /\ ~gw.raised =>
              \E e \in procCache :
                  /\ EntriesFor(gw.name, gw.params) = {e}
                  /\ e.val = gw.ret /\ e.age = 0
        /\ gw.raised <=> (~gw.hit /\ gw.connState = "closed")
        /\ gw.raised => ~gw.cacheChanged

\* C7 witness: a call on a closed connection is answered from the cache
\* with the rows an earlier call, on the connection while it was open,
\* stored less than 600 seconds before.
C7_Witness ==
    /\ gw.op = "call" /\ gw.hit /\ gw.connState = "closed" /\ gw.ret = "rows"
    /\ gw.storedRecently /\ ~gw.invoked

\* C24: the empty list a failed procedure invocation returned is cached
\* like any result: while less than 600 seconds have passed since that call
\* and the cache was not cleared, every call with the same name and
\* parameters, on any connection and whatever the database would do now,
\* returns the empty list from the cache without invoking the procedure.
C24_FailureIsCached ==
    gw.op = "call" /\ gw.failedRecently =>
        /\ gw.hit /\ ~gw.raised
        /\ gw.ret = "empty"
        /\ ~gw.invoked /\ ~gw.cursorOpened
        /\ ~gw.cacheChanged

\* C24 witness: a call on an open connection, for which the procedure
\* would now return rows, is answered with the empty list an earlier failed
\* invocation stored.
C24_Witness ==
    /\ gw.op = "call" /\ gw.failedRecently
    /\ gw.connState = "open" /\ gw.outcome = "rows"
    /\ gw.hit /\ gw.ret = "empty"

====
